---- MODULE Spec2Model ----
(***************************************************************************)
(* Model of the food-identification / recipe core of grupito_de_cracks:    *)
(*   src/utils.py       parse_json_response, image_to_base64               *)
(*   src/gemini_api.py  PROMPTS, _initialize_llm, identify_food,           *)
(*                      generate_recipes, suggest_recipes_for_food          *)
(*   src/config.py      get_google_api_key                                  *)
(*                                                                         *)
(* Text is a sequence of one-character strings, so that str.strip,         *)
(* str.startswith, str.endswith, slicing and json.loads are computed       *)
(* character by character.  Python values (the results of json.loads and   *)
(* the dicts the task functions build) are records of one shape:           *)
(*   [kind, num, str, items]                                               *)
(*   kind = "None" | "int" | "str" | "list" | "dict" | "pair"              *)
(* "pair" is one key/value entry of a dict: str is the key, items holds    *)
(* the value.                                                              *)
(***************************************************************************)
EXTENDS Integers, Sequences, FiniteSets, TLC

(* ------------------------------ bounds -------------------------------- *)

\* longest free-form body enumerated for the normalizer specification
MaxBodyLen == 3

\* longest free-form body enumerated as a gateway reply
MaxReplyLen == 2

\* longest list of food names passed to suggest_recipes_for_food
MaxNames == 2

\* largest uploaded image, in bytes
MaxImageLen == 2

\* cap on the per-invocation gateway call counter
MaxCalls == 3

(* --------------------------- Python values ---------------------------- *)

PyNone == [kind |-> "None", num |-> 0, str |-> <<>>, items |-> <<>>]

PyInt(n) == [kind |-> "int", num |-> n, str |-> <<>>, items |-> <<>>]

PyStr(s) == [kind |-> "str", num |-> 0, str |-> s, items |-> <<>>]

PyList(xs) == [kind |-> "list", num |-> 0, str |-> <<>>, items |-> xs]

PyPair(k, v) == [kind |-> "pair", num |-> 0, str |-> k, items |-> <<v>>]

PyDict(ps) == [kind |-> "dict", num |-> 0, str |-> <<>>, items |-> ps]

\* `key in d` for a dict d
HasKey(d, k) ==
    /\ d.kind = "dict"
    /\ \E n \in 1..Len(d.items) : d.items[n].str = k

\* d[key] for a dict d that has the key
GetKey(d, k) ==
    LET n == CHOOSE m \in 1..Len(d.items) : d.items[m].str = k
    IN  d.items[n].items[1]

\* d[key] = v on the entries of a dict: a repeated key keeps its place and
\* takes the last value
DictPut(ps, k, v) ==
    IF \E n \in 1..Len(ps) : ps[n].str = k
    THEN [n \in 1..Len(ps) |-> IF ps[n].str = k THEN PyPair(k, v) ELSE ps[n]]
    ELSE Append(ps, PyPair(k, v))

(* ------------------------------ str ----------------------------------- *)

\* the characters str.strip() removes, of those the model's texts use
StripChars == {" ", "\n"}

\* the whitespace json.loads skips, of those the model's texts use
JsonWhitespace == {" ", "\n"}

Digits == {"1"}

startswith(s, p) ==
    /\ Len(s) >= Len(p)
    /\ SubSeq(s, 1, Len(p)) = p

endswith(s, p) ==
    /\ Len(s) >= Len(p)
    /\ SubSeq(s, Len(s) - Len(p) + 1, Len(s)) = p

RECURSIVE lstrip(_)
lstrip(s) ==
    IF s # <<>> /\ Head(s) \in StripChars THEN lstrip(Tail(s)) ELSE s

RECURSIVE rstrip(_)
rstrip(s) ==
    IF s # <<>> /\ s[Len(s)] \in StripChars
    THEN rstrip(SubSeq(s, 1, Len(s) - 1))
    ELSE s

strip(s) == rstrip(lstrip(s))

\* the backquote character (written by name: the lexer reserves it)
Backquote == "backquote"

FenceOpener == <<Backquote, Backquote, Backquote, "j", "s", "o", "n">>

FenceCloser == <<Backquote, Backquote, Backquote>>

(* ---------------------------- json.loads ------------------------------ *)

\* a scan result: ok, the value, and the index after it
ScanFail == [ok |-> FALSE, val |-> PyNone, end |-> 0]

ScanOk(v, e) == [ok |-> TRUE, val |-> v, end |-> e]

\* first index >= i that is not JSON whitespace (Len(s)+1 when none)
RECURSIVE skip_ws(_, _)
skip_ws(s, i) ==
    IF i <= Len(s) /\ s[i] \in JsonWhitespace THEN skip_ws(s, i + 1) ELSE i

\* s[i] or "" past the end
CharAt(s, i) == IF i >= 1 /\ i <= Len(s) THEN s[i] ELSE ""

\* scanstring: i is the index after the opening quote; control characters
\* (the newline) are rejected, an unterminated string is an error
RECURSIVE scanstring(_, _, _)
scanstring(s, i, acc) ==
    IF i > Len(s) THEN ScanFail
    ELSE IF s[i] = "\"" THEN ScanOk(PyStr(acc), i + 1)
    ELSE IF s[i] = "\n" THEN ScanFail
    ELSE scanstring(s, i + 1, Append(acc, s[i]))

\* the integer a run of digits starting at i denotes
RECURSIVE scan_number(_, _, _)
scan_number(s, i, acc) ==
    IF i <= Len(s) /\ s[i] \in Digits
    THEN scan_number(s, i + 1, 10 * acc + 1)
    ELSE ScanOk(PyInt(acc), i)

RECURSIVE scan_once(_, _)
RECURSIVE JSONArray(_, _, _)
RECURSIVE JSONObject(_, _, _)

\* JSONArray's loop: i is the index where the next element must start
JSONArray(s, i, acc) ==
    LET v == scan_once(s, i)
    IN  IF ~v.ok THEN ScanFail
        ELSE LET j == skip_ws(s, v.end)
                 c == CharAt(s, j)
             IN  IF c = "]" THEN ScanOk(PyList(Append(acc, v.val)), j + 1)
                 ELSE IF c # "," THEN ScanFail
                 ELSE JSONArray(s, skip_ws(s, j + 1), Append(acc, v.val))

\* JSONObject's loop: i is the index of the opening quote of the next key
JSONObject(s, i, acc) ==
    IF CharAt(s, i) # "\"" THEN ScanFail
    ELSE
      LET k == scanstring(s, i + 1, <<>>)
      IN  IF ~k.ok THEN ScanFail
          ELSE LET c == skip_ws(s, k.end)
               IN  IF CharAt(s, c) # ":" THEN ScanFail
                   ELSE LET v == scan_once(s, skip_ws(s, c + 1))
                        IN  IF ~v.ok THEN ScanFail
                            ELSE LET j == skip_ws(s, v.end)
                                     ps == DictPut(acc, k.val.str, v.val)
                                 IN  IF CharAt(s, j) = "}"
                                     THEN ScanOk(PyDict(ps), j + 1)
                                     ELSE IF CharAt(s, j) # "," THEN ScanFail
                                     ELSE JSONObject(s, skip_ws(s, j + 1), ps)

\* the scanner's dispatch on the first character of a value
scan_once(s, i) ==
    LET c == CharAt(s, i)
    IN  IF c = "\"" THEN scanstring(s, i + 1, <<>>)
        ELSE IF c = "{"
             THEN LET j == skip_ws(s, i + 1)
                  IN  IF CharAt(s, j) = "}" THEN ScanOk(PyDict(<<>>), j + 1)
                      ELSE JSONObject(s, j, <<>>)
        ELSE IF c = "["
             THEN LET j == skip_ws(s, i + 1)
                  IN  IF CharAt(s, j) = "]" THEN ScanOk(PyList(<<>>), j + 1)
                      ELSE JSONArray(s, j, <<>>)
        ELSE IF c \in Digits THEN scan_number(s, i, 0)
        ELSE ScanFail

\* json.loads(s): one value between optional whitespace, nothing after it;
\* ok = FALSE stands for json.JSONDecodeError
json_loads(s) ==
    LET v == scan_once(s, skip_ws(s, 1))
    IN  IF ~v.ok THEN ScanFail
        ELSE IF skip_ws(s, v.end) # Len(s) + 1 THEN ScanFail
        ELSE v

(* ----------------------- parse_json_response -------------------------- *)

\* variant: the opener is cut as if it were three characters long
strip_fences_short_opener(c) ==
    LET a == IF startswith(c, FenceOpener) THEN SubSeq(c, 4, Len(c)) ELSE c
    IN  IF endswith(a, FenceCloser) THEN SubSeq(a, 1, Len(a) - 3) ELSE a

\* utils.py 51-54: cut the fence opener, then the fence closer
strip_fences(c) ==
    LET a == IF startswith(c, FenceOpener) THEN SubSeq(c, 8, Len(c)) ELSE c
    IN  IF endswith(a, FenceCloser) THEN SubSeq(a, 1, Len(a) - 3) ELSE a

\* utils.py 48-56: the cleaned text
cleaned_content(response_content) ==
    strip(strip_fences(strip(response_content)))

\* variant: the second `not` is dropped
needs_wrap_dropped_not(c) ==
    ~startswith(c, <<"[">>) /\ endswith(c, <<"]">>)

\* variant: only a text that opens an object is wrapped
needs_wrap_objects_only(c) == startswith(c, <<"{">>)

\* utils.py 59: the condition under which the text is wrapped in [ ]
needs_wrap(c) ==
    ~startswith(c, <<"[">>) /\ ~endswith(c, <<"]">>)

\* utils.py 59-60: the text handed to json.loads
wrapped_content(c) ==
    IF needs_wrap(c) THEN <<"[">> \o c \o <<"]">> ELSE c

\* utils.py 37-70: the parsed value, or None when json.loads fails
parse_json_response(response_content) ==
    LET r == json_loads(wrapped_content(cleaned_content(response_content)))
    IN  IF r.ok THEN r.val ELSE PyNone

(* ------------------------------ PROMPTS ------------------------------- *)
(* A prompt is a sequence of tokens: the words, the punctuation marks and  *)
(* the {placeholder} of the template, in order (blanks and line breaks     *)
(* between tokens are left out, accented letters are written unaccented). *)

PROMPT_en_recipe_generation ==
    <<"You", "are", "a", "culinary", "expert", ".", "Based", "on", "\"",
      "{food_name}", "\"", ",", "suggest", "5", "unique", "and",
      "appealing", "recipes", "that", "one", "person", "can", "cook", ".",
      "Respond", "ONLY", "with", "a", "JSON", "array", "of", "objects",
      ".", "Each", "object", "should", "have", "the", "following", "keys",
      ":", "-", "\"", "recipe_name", "\"", ":", "The", "name", "of", "the",
      "recipe", ".", "-", "\"", "description", "\"", ":", "A", "brief",
      ",", "one", "-", "sentence", "description", "of", "the", "recipe",
      ".", "-", "\"", "key_ingredients", "\"", ":", "A", "list", "of", "3",
      "-", "5", "essential", "ingredients", "for", "the", "recipe", ".",
      "Respond", "in", "English", ".", "Do", "not", "include", "any",
      "text", ",", "markdown", "formatting", ",", "or", "explanations",
      "outside", "of", "the", "JSON", "object", ".">>

PROMPT_en_food_identification ==
    <<"You", "are", "an", "expert", "food", "identifier", ".", "Analyze",
      "the", "image", "and", "identify", "the", "food", ".", "If", "no",
      "food", "is", "present", ",", "state", "that", "clearly", ".",
      "Respond", "ONLY", "with", "a", "JSON", "object", "with", "the",
      "following", "keys", "for", "each", "food", ":", "-", "\"",
      "food_name", "\"", ":", "The", "name", "of", "the", "food", "(", "e",
      ".", "g", ".", ",", "\"", "Margherita", "Pizza", "\"", ",", "\"",
      "No", "food", "detected", "\"", ")", ".", "-", "\"", "description",
      "\"", ":", "A", "brief", ",", "one", "-", "sentence", "description",
      "of", "the", "food", ".", "-", "\"", "confidence_score", "\"", ":",
      "An", "integer", "from", "1", "(", "not", "confident", ")", "to",
      "10", "(", "very", "confident", ")", ".", "Respond", "in", "English",
      ".", "Do", "not", "include", "any", "text", ",", "markdown",
      "formatting", ",", "or", "explanations", "outside", "of", "the",
      "JSON", "object", ".">>

PROMPT_en_recipe_from_list ==
    <<"You", "are", "a", "culinary", "expert", ".", "Based", "on", "the",
      "following", "list", "of", "ingredients", "\"", "{food_name_list}",
      "\"", ",", "suggest", "5", "unique", "and", "appealing", "recipes",
      "that", "one", "person", "can", "cook", ".", "Respond", "ONLY",
      "with", "a", "JSON", "array", "of", "objects", ".", "Each", "object",
      "should", "have", "the", "following", "keys", ":", "-", "\"",
      "recipe_name", "\"", ":", "The", "name", "of", "the", "recipe", ".",
      "-", "\"", "description", "\"", ":", "A", "brief", ",", "one", "-",
      "sentence", "description", "of", "the", "recipe", ".", "-", "\"",
      "key_ingredients", "\"", ":", "A", "list", "of", "3", "-", "5",
      "essential", "ingredients", "for", "the", "recipe", ".", "Respond",
      "in", "English", ".", "Do", "not", "include", "any", "text", ",",
      "markdown", "formatting", ",", "or", "explanations", "outside", "of",
      "the", "JSON", "object", ".">>

PROMPT_es_recipe_generation ==
    <<"Eres", "un", "experto", "culinario", ".", "Basado", "en", "\"",
      "{food_name}", "\"", ",", "sugiere", "5", "recetas", "unicas", "y",
      "atractivas", "que", "una", "persona", "puede", "cocinar", ".",
      "Responde", "SOLO", "con", "un", "array", "JSON", "de", "objetos",
      ".", "Cada", "objeto", "debe", "tener", "las", "siguientes",
      "claves", ":", "-", "\"", "recipe_name", "\"", ":", "El", "nombre",
      "de", "la", "receta", ".", "-", "\"", "description", "\"", ":",
      "Una", "breve", "descripcion", "de", "la", "receta", "en", "una",
      "oracion", ".", "-", "\"", "key_ingredients", "\"", ":", "Una",
      "lista", "de", "3", "-", "5", "ingredientes", "esenciales", "para",
      "la", "receta", ".", "Responde", "en", "espanol", ".", "No",
      "incluyas", "texto", ",", "formato", "markdown", "o",
      "explicaciones", "fuera", "del", "objeto", "JSON", ".">>

PROMPT_es_food_identification ==
    <<"Eres", "un", "experto", "identificador", "de", "alimentos", ".",
      "Analiza", "la", "imagen", "e", "identifica", "la", "comida", ".",
      "Si", "no", "hay", "comida", "presente", ",", "indicalo",
      "claramente", ".", "Responde", "SOLO", "con", "un", "objeto", "JSON",
      "con", "las", "siguientes", "claves", "para", "cada", "comida", ":",
      "-", "\"", "food_name", "\"", ":", "El", "nombre", "de", "la",
      "comida", "(", "ej", ".", "\"", "Pizza", "Margherita", "\"", ",",
      "\"", "No", "food", "detected", "\"", ")", ".", "-", "\"",
      "description", "\"", ":", "Una", "breve", "descripcion", "de", "la",
      "comida", "en", "una", "oracion", ".", "-", "\"", "confidence_score",
      "\"", ":", "Un", "numero", "entero", "del", "1", "(", "poca",
      "confianza", ")", "al", "10", "(", "mucha", "confianza", ")", ".",
      "Responde", "en", "espanol", ".", "No", "incluyas", "texto", ",",
      "formato", "markdown", "o", "explicaciones", "fuera", "del",
      "objeto", "JSON", ".">>

PROMPT_es_recipe_from_list ==
    <<"Eres", "un", "experto", "culinario", ".", "Basado", "en", "la",
      "siguiente", "lista", "de", "ingredientes", "\"", "{food_name_list}",
      "\"", ",", "sugiere", "5", "recetas", "unicas", "y", "atractivas",
      "que", "una", "persona", "puede", "cocinar", ".", "Responde", "SOLO",
      "con", "un", "array", "JSON", "de", "objetos", ".", "Cada", "objeto",
      "debe", "tener", "las", "siguientes", "claves", ":", "-", "\"",
      "recipe_name", "\"", ":", "El", "nombre", "de", "la", "receta", ".",
      "-", "\"", "description", "\"", ":", "Una", "breve", "descripcion",
      "de", "la", "receta", "en", "una", "oracion", ".", "-", "\"",
      "key_ingredients", "\"", ":", "Una", "lista", "de", "3", "-", "5",
      "ingredientes", "esenciales", "para", "la", "receta", ".",
      "Responde", "en", "espanol", ".", "No", "incluyas", "texto", ",",
      "formato", "markdown", "o", "explicaciones", "fuera", "del",
      "objeto", "JSON", ".">>

PROMPTS ==
    [en |-> [recipe_generation |-> PROMPT_en_recipe_generation,
             food_identification |-> PROMPT_en_food_identification,
             recipe_from_list |-> PROMPT_en_recipe_from_list],
     es |-> [recipe_generation |-> PROMPT_es_recipe_generation,
             food_identification |-> PROMPT_es_food_identification,
             recipe_from_list |-> PROMPT_es_recipe_from_list]]

\* variant: the names are concatenated without the separator
join_no_separator(sep, names) == names

\* sep.join(names), each name one token, sep = ", "
RECURSIVE join(_, _)
join(sep, names) ==
    IF names = <<>> THEN <<>>
    ELSE IF Len(names) = 1 THEN <<names[1]>>
    ELSE <<names[1], sep>> \o join(sep, Tail(names))

\* template.format(field=value): every occurrence of the field is replaced
\* by the value, which is not scanned again (computed by halves)
RECURSIVE format(_, _, _)
format(template, field, value) ==
    IF template = <<>> THEN <<>>
    ELSE IF Len(template) = 1
         THEN IF template[1] = field THEN value ELSE template
         ELSE LET h == Len(template) \div 2
              IN  format(SubSeq(template, 1, h), field, value)
                  \o format(SubSeq(template, h + 1, Len(template)), field, value)

(* --------------------------- the credential --------------------------- *)

\* os.environ has no GOOGLE_API_KEY
Unset == "<unset>"

\* config.py 11-14: os.getenv("GOOGLE_API_KEY"); "None" stands for None
get_google_api_key(env) == IF env = Unset THEN "None" ELSE env

\* variant: only a missing variable is refused, an empty one is accepted
_initialize_llm_none_only(api_key) == api_key # "None"

\* gemini_api.py 74-80: TRUE when a model object is returned, FALSE for None
_initialize_llm(api_key) == ~(api_key = "None" \/ api_key = "")

(* ------------------------------ images -------------------------------- *)

\* an uploaded file is the number of bytes it holds; NoFile is None
NoFile == -1

\* utils.py 27-35: the length of the base64 text (4 characters for every 3
\* bytes, padded), or NoFile for None
image_to_base64(uploaded_file) ==
    IF uploaded_file = NoFile THEN NoFile
    ELSE 4 * ((uploaded_file + 2) \div 3)

\* `not base64_image`: None and the empty string are falsy
falsy_base64(b) == b = NoFile \/ b = 0

(* ------------------------- the error mappings ------------------------- *)

ErrorKey == <<"e", "r", "r", "o", "r">>

RawResponseKey ==
    <<"r", "a", "w", "_", "r", "e", "s", "p", "o", "n", "s", "e">>

\* a message is a str of one fragment, or of two when an exception's text
\* is appended
InitFailure(task) ==
    PyDict(<<PyPair(ErrorKey, PyStr(
        IF task = "identify_food"
        THEN <<"Failed to initialize Gemini Vision model.">>
        ELSE <<"Failed to initialize Gemini model for recipe generation.">>))>>)

EncodeFailure ==
    PyDict(<<PyPair(ErrorKey, PyStr(<<"Failed to encode the image.">>))>>)

\* variant: the cleaned text is surfaced in place of the reply
ParseFailure_cleaned(task, content) ==
    PyDict(<<PyPair(ErrorKey, PyStr(
        IF task = "identify_food"
        THEN <<"Failed to parse JSON response from the vision model.">>
        ELSE <<"Failed to parse JSON response for recipes from the model.">>)),
             PyPair(RawResponseKey, PyStr(cleaned_content(content)))>>)

ParseFailure(task, content) ==
    PyDict(<<PyPair(ErrorKey, PyStr(
        IF task = "identify_food"
        THEN <<"Failed to parse JSON response from the vision model.">>
        ELSE <<"Failed to parse JSON response for recipes from the model.">>)),
             PyPair(RawResponseKey, PyStr(content))>>)

\* variant: the except clause also fills raw_response
InvokeFailure_with_raw(task, e) ==
    PyDict(<<PyPair(ErrorKey, PyStr(
        <<"An unexpected error occurred during recipe generation: ", e>>)),
             PyPair(RawResponseKey, PyStr(<<e>>))>>)

InvokeFailure(task, e) ==
    PyDict(<<PyPair(ErrorKey, PyStr(
        IF task = "identify_food"
        THEN <<"An unexpected error occurred during food identification: ", e>>
        ELSE <<"An unexpected error occurred during recipe generation: ", e>>))>>)

\* gemini_api.py 166-167: identify_food wraps a value that is not a list
coerce_to_list(v) == IF v.kind # "list" THEN PyList(<<v>>) ELSE v

\* variant: the call is tried again after a fault
after_fault_retry == "invoke"

\* the pc a task function continues at after a gateway fault was caught:
\* the except clause returns
after_fault == "done"

(* ------------------------- inputs and replies ------------------------- *)

Tasks == {"identify_food", "generate_recipes", "suggest_recipes_for_food"}

\* "en" and "es" are the catalog's languages; "fr" is one that is not
LanguageInputs == {"en", "es", "fr"}

FoodNames == {"Pizza", "Salad", "JSON"}

FoodNameLists == UNION {[1..n -> FoodNames] : n \in 0..MaxNames}

ImageInputs == {NoFile} \cup (0..MaxImageLen)

ApiKeys == {"key"}

Faults == {"timeout"}

BodyChars == {"[", "]", "{", "}", ",", "1", "\"", " "}

FreeBodies(n) == UNION {[1..k -> BodyChars] : k \in 0..n}

\* longer texts: objects with members, lists of objects, prose
NamedBodies ==
    { <<"{", "\"", "1", "\"", ":", "1", "}">>,
      <<"[", "{", "\"", "1", "\"", ":", "1", "}", "]">>,
      <<"{", "\"", "1", "\"", ":", "1", "}", ",", "{", "}">>,
      <<"{", "\"", "1", "\"", ":", "1", ",", "\"", "1", "\"", ":", "[", "]", "}">>,
      <<"{", "\"", "1", "\"", ":", "[", "1", "]", "}">>,
      <<"1", ",", "[", "1", "]">>,
      <<"[", "1", "]", ",", "1">>,
      <<"[", "1", "]", ",", "[", "1", "]">>,
      <<"[", "1", ",", "1", "]">>,
      <<"[", "[", "1", "]", ",", "{", "}", "]">>,
      <<"n", "o">>,
      <<"j", "s", "o", "n">> }

\* a text wrapped in a markdown JSON fence: style 1 puts the fence right
\* around the text, style 2 puts each fence on a line of its own, style 3
\* also has blanks outside the fence
Fenced(style, a) ==
    IF style = 1 THEN FenceOpener \o a \o FenceCloser
    ELSE IF style = 2
         THEN FenceOpener \o <<"\n">> \o a \o <<"\n">> \o FenceCloser
    ELSE IF style = 3
         THEN <<" ">> \o FenceOpener \o <<"\n">> \o a \o <<"\n">>
              \o FenceCloser \o <<"\n">>
    ELSE IF style = 4 THEN FenceOpener \o a
    ELSE IF style = 5 THEN a \o FenceCloser
    ELSE a

FullFences == {1, 2, 3}

FenceStyles == {1, 2, 3, 4, 5}

\* a text with blanks around it
Padded(pad, a) ==
    IF pad = 1 THEN <<" ">> \o a
    ELSE IF pad = 2 THEN a \o <<"\n">>
    ELSE IF pad = 3 THEN <<"\n">> \o a \o <<" ", " ">>
    ELSE a

Pads == {0, 1, 2, 3}

\* the texts the normalizer specification starts from
NormTexts ==
    {Padded(pad, b) : pad \in Pads, b \in FreeBodies(MaxBodyLen) \cup NamedBodies}

\* the texts the gateway replies with
Replies ==
    LET bodies == FreeBodies(MaxReplyLen) \cup NamedBodies
    IN  bodies \cup {Padded(3, b) : b \in bodies}
               \cup {Fenced(2, b) : b \in bodies}
               \cup {Fenced(3, b) : b \in bodies}

(* ------------------------------- state -------------------------------- *)

NumProcs == 2

Procs == 1..NumProcs

VARIABLES
    environ,    \* os.environ["GOOGLE_API_KEY"], or Unset
    active,     \* the invocations (callers) that run
    inv,        \* inv[p]: the locals of caller p's task-function invocation
    norm,       \* one run of parse_json_response on a text and on the
                \* same text inside a fence
    session     \* the Streamlit session of main_app.py: widget values,
                \* st.session_state, and what the last script run showed

vars == <<environ, active, inv, norm, session>>

IdleInv ==
    [pc |-> "idle", task |-> "", language |-> "", image |-> NoFile,
     food_name |-> <<>>, api_key |-> "None", llm |-> FALSE,
     base64_image |-> NoFile, prompt |-> <<>>, replied |-> "none",
     content |-> <<>>, parsed |-> PyNone, calls |-> 0,
     outcome |-> "none", value |-> PyNone]

IdleNorm ==
    [pc |-> "idle", text |-> <<>>, plain |-> PyNone, style |-> 0,
     input |-> <<>>, cleaned |-> <<>>, wrapped |-> FALSE, result |-> PyNone]

\* uploaded_file_sig is None
NoSig == -1

\* the session before the first upload; a key of st.session_state that is
\* absent is left out of has, and its field then holds the value below
IdleSession ==
    [language |-> "en", uploaded |-> NoFile, uploaded_file_sig |-> NoSig,
     has |-> {}, food_details |-> PyNone, selected_foods |-> <<>>,
     recipes |-> PyNone, ready_to_show |-> FALSE,
     food_src |-> NoFile, recipes_src |-> NoFile,
     shown_image |-> NoFile, shown_details |-> NoFile,
     shown_selector |-> FALSE, shown_recipes |-> NoFile,
     dropped |-> NoFile]

EnvInputs == {Unset, ""} \cup ApiKeys

Init ==
    /\ environ \in EnvInputs
    /\ active = {1}
    /\ inv = [p \in Procs |-> IdleInv]
    /\ norm = IdleNorm
    /\ session = IdleSession

(* --------------------------- task functions --------------------------- *)

\* the caller invokes a task function with these arguments
CallWith(p, task, language, image, names) ==
    /\ p \in active
    /\ inv[p].pc = "idle"
    /\ inv' = [inv EXCEPT ![p] =
                 [IdleInv EXCEPT !.pc = "initialize_llm", !.task = task,
                                 !.language = language, !.image = image,
                                 !.food_name = names]]
    /\ UNCHANGED <<environ, active, norm, session>>

\* the caller invokes a task function with its arguments
Call(p) ==
    \E task \in Tasks, language \in LanguageInputs :
      \E image \in (IF task = "identify_food" THEN ImageInputs ELSE {NoFile}) :
        \E names \in (IF task = "suggest_recipes_for_food" THEN FoodNameLists
                      ELSE IF task = "generate_recipes"
                           THEN {<<n>> : n \in FoodNames}
                           ELSE {<<>>}) :
          CallWith(p, task, language, image, names)

\* variant: the key is kept in a module-level cache, so an invocation
\* takes the key another invocation in progress has looked up
InitializeLlm_cached(p) ==
    /\ inv[p].pc = "initialize_llm"
    /\ LET cached == {q \in Procs : q # p /\ inv[q].pc \notin {"idle", "initialize_llm"}}
           api_key == IF cached # {}
                      THEN inv[CHOOSE q \in cached : TRUE].api_key
                      ELSE get_google_api_key(environ)
           llm == _initialize_llm(api_key)
       IN  inv' = [inv EXCEPT ![p] =
             IF ~llm
             THEN [@ EXCEPT !.api_key = api_key, !.llm = FALSE, !.pc = "done",
                            !.outcome = "return", !.value = InitFailure(inv[p].task)]
             ELSE [@ EXCEPT !.api_key = api_key, !.llm = TRUE,
                            !.pc = IF inv[p].task = "identify_food" THEN "encode"
                                   ELSE "render"]]
    /\ UNCHANGED <<environ, active, norm, session>>

\* gemini_api.py 94-96, 131-133, 185-187
InitializeLlm(p) ==
    /\ inv[p].pc = "initialize_llm"
    /\ LET api_key == get_google_api_key(environ)
           llm == _initialize_llm(api_key)
       IN  inv' = [inv EXCEPT ![p] =
             IF ~llm
             THEN [@ EXCEPT !.api_key = api_key, !.llm = FALSE, !.pc = "done",
                            !.outcome = "return", !.value = InitFailure(inv[p].task)]
             ELSE [@ EXCEPT !.api_key = api_key, !.llm = TRUE,
                            !.pc = IF inv[p].task = "identify_food" THEN "encode"
                                   ELSE "render"]]
    /\ UNCHANGED <<environ, active, norm, session>>

\* gemini_api.py 135-137
EncodeImage(p) ==
    /\ inv[p].pc = "encode"
    /\ LET b == image_to_base64(inv[p].image)
       IN  inv' = [inv EXCEPT ![p] =
             IF falsy_base64(b)
             THEN [@ EXCEPT !.base64_image = b, !.pc = "done",
                            !.outcome = "return", !.value = EncodeFailure]
             ELSE [@ EXCEPT !.base64_image = b, !.pc = "render"]]
    /\ UNCHANGED <<environ, active, norm, session>>

\* the catalog entry a task function reads
TemplateOf(task) ==
    IF task = "identify_food" THEN "food_identification"
    ELSE IF task = "generate_recipes" THEN "recipe_generation"
    ELSE "recipe_from_list"

\* gemini_api.py 98-99, 139, 189-191: the prompt text of a task function
render(task, language, food_name) ==
    LET template == PROMPTS[language][TemplateOf(task)]
    IN  IF task = "identify_food" THEN template
        ELSE IF task = "generate_recipes"
             THEN format(template, "{food_name}", food_name)
             ELSE format(template, "{food_name_list}", join(",", food_name))

\* variant: the catalog is read with a default, so a language it lacks is
\* not noticed before the call
RenderPrompt_lazy_lookup(p) ==
    /\ inv[p].pc = "render"
    /\ inv' = [inv EXCEPT ![p] =
         [@ EXCEPT !.pc = "invoke",
                   !.prompt = IF inv[p].language \in DOMAIN PROMPTS
                              THEN render(inv[p].task, inv[p].language,
                                          inv[p].food_name)
                              ELSE <<>>]]
    /\ UNCHANGED <<environ, active, norm, session>>

\* gemini_api.py 98-101, 139-152, 189-193: PROMPTS[language] raises
\* KeyError, outside any try, for a language the catalog lacks
RenderPrompt(p) ==
    /\ inv[p].pc = "render"
    /\ inv' = [inv EXCEPT ![p] =
         IF inv[p].language \notin DOMAIN PROMPTS
         THEN [@ EXCEPT !.pc = "done", !.outcome = "raise"]
         ELSE [@ EXCEPT !.pc = "invoke",
                        !.prompt = render(inv[p].task, inv[p].language, inv[p].food_name)]]
    /\ UNCHANGED <<environ, active, norm, session>>

\* gemini_api.py 105, 156, 197 with 115-116, 170-171, 207-208: llm.invoke
\* returns a reply, or raises and the except clause returns the error
InvokeFrom(p, replies) ==
    /\ inv[p].pc = "invoke"
    /\ inv[p].calls < MaxCalls
    /\ \/ \E text \in replies :
            inv' = [inv EXCEPT ![p] =
                      [@ EXCEPT !.calls = @ + 1, !.replied = "text",
                                !.content = text, !.pc = "parse"]]
       \/ \E e \in Faults :
            inv' = [inv EXCEPT ![p] =
                      [@ EXCEPT !.calls = @ + 1, !.replied = "fault",
                                !.pc = after_fault, !.outcome = "return",
                                !.value = InvokeFailure(inv[p].task, e)]]
    /\ UNCHANGED <<environ, active, norm, session>>

\* the gateway call with the replies the task-function specification uses
Invoke(p) == InvokeFrom(p, Replies)

\* gemini_api.py 106-113, 157-168, 198-205
ParseReply(p) ==
    /\ inv[p].pc = "parse"
    /\ LET parsed == parse_json_response(inv[p].content)
       IN  inv' = [inv EXCEPT ![p] =
             IF parsed = PyNone
             THEN [@ EXCEPT !.parsed = parsed, !.pc = "done",
                            !.outcome = "return",
                            !.value = ParseFailure(inv[p].task, inv[p].content)]
             ELSE [@ EXCEPT !.parsed = parsed, !.pc = "done",
                            !.outcome = "return",
                            !.value = IF inv[p].task = "identify_food"
                                      THEN coerce_to_list(parsed)
                                      ELSE parsed]]
    /\ UNCHANGED <<environ, active, norm, session>>

\* the value is handed to the caller (or the exception propagates to it),
\* and the invocation's locals are gone
Return(p) ==
    /\ inv[p].pc = "done"
    /\ inv' = [inv EXCEPT ![p] = IdleInv]
    /\ UNCHANGED <<environ, active, norm, session>>

\* main_app.py 174-176: the sidebar's key box sets the environment variable
SetApiKey ==
    /\ \E k \in ApiKeys : environ # k /\ environ' = k
    /\ UNCHANGED <<active, inv, norm, session>>

Next ==
    \/ \E p \in Procs : Call(p)
    \/ \E p \in Procs : InitializeLlm(p)
    \/ \E p \in Procs : EncodeImage(p)
    \/ \E p \in Procs : RenderPrompt(p)
    \/ \E p \in Procs : Invoke(p)
    \/ \E p \in Procs : ParseReply(p)
    \/ \E p \in Procs : Return(p)
    \/ SetApiKey

Spec == Init /\ [][Next]_vars

(* ------------------- parse_json_response on its own ------------------- *)

InitNorm ==
    /\ environ = Unset
    /\ active = {}
    /\ inv = [p \in Procs |-> IdleInv]
    /\ \E a \in NormTexts : norm = [IdleNorm EXCEPT !.pc = "start", !.text = a]
    /\ session = IdleSession

\* parse_json_response(text)
NormalizePlain ==
    /\ norm.pc = "start"
    /\ LET c == cleaned_content(norm.text)
       IN  norm' = [norm EXCEPT !.pc = "plain", !.input = norm.text,
                                !.cleaned = c, !.wrapped = needs_wrap(c),
                                !.result = parse_json_response(norm.text),
                                !.plain = parse_json_response(norm.text)]
    /\ UNCHANGED <<environ, active, inv, session>>

\* parse_json_response(the text inside a fence)
NormalizeFenced ==
    /\ norm.pc = "plain"
    /\ \E style \in FenceStyles :
         LET input == Fenced(style, norm.text)
             c == cleaned_content(input)
         IN  norm' = [norm EXCEPT !.pc = "fenced", !.style = style,
                                  !.input = input, !.cleaned = c,
                                  !.wrapped = needs_wrap(c),
                                  !.result = parse_json_response(input)]
    /\ UNCHANGED <<environ, active, inv, session>>

NextNorm == NormalizePlain \/ NormalizeFenced

SpecNorm == InitNorm /\ [][NextNorm]_vars

(* =============================== claims =============================== *)

\* the invocation p has finished and holds its outcome
Done(p) == inv[p].pc = "done"

\* the finished invocation returned a mapping with an `error` key
ReturnedError(p) ==
    /\ inv[p].outcome = "return"
    /\ HasKey(inv[p].value, ErrorKey)

\* json.loads rejects what parse_json_response hands it for this reply
Unparsable(text) == ~json_loads(wrapped_content(cleaned_content(text))).ok

\* C1: when the credential lookup returned None or the empty string, the
\* invocation (whatever the task, the language and the arguments) ends right
\* after the lookup, returns a mapping with an `error` key, and has issued
\* no gateway call.
C1_MissingCredential ==
    \A p \in Procs :
        (inv[p].pc \notin {"idle", "initialize_llm"}
            /\ inv[p].api_key \in {"None", ""})
        => /\ Done(p)
           /\ ReturnedError(p)
           /\ ~inv[p].llm
           /\ inv[p].calls = 0

C1_Witness ==
    \E p \in Procs :
        /\ Done(p)
        /\ inv[p].api_key = ""
        /\ inv[p].task = "suggest_recipes_for_food"
        /\ inv[p].language = "fr"
        /\ ReturnedError(p)

\* C2: in a returned error mapping the raw_response key is present exactly
\* when the gateway returned text and that text could not be normalized; a
\* gateway fault is caught: the invocation returns (it does not raise) a
\* mapping with an `error` key and no raw_response key.
C2_RawResponseKey ==
    \A p \in Procs :
        /\ (Done(p) /\ ReturnedError(p))
           => (HasKey(inv[p].value, RawResponseKey)
               <=> (inv[p].replied = "text" /\ Unparsable(inv[p].content)))
        /\ inv[p].replied = "fault"
           => /\ Done(p)
              /\ ReturnedError(p)
              /\ ~HasKey(inv[p].value, RawResponseKey)

C2_Witness ==
    \E p \in Procs :
        /\ Done(p)
        /\ inv[p].replied = "fault"
        /\ inv[p].calls = 1
        /\ ReturnedError(p)
        /\ ~HasKey(inv[p].value, RawResponseKey)

\* C3 as claimed: the raw_response a task function surfaces is the cleaned
\* text (trimmed, fence removed).
C3_RawIsCleaned ==
    \A p \in Procs :
        (Done(p) /\ HasKey(inv[p].value, RawResponseKey))
        => GetKey(inv[p].value, RawResponseKey)
             = PyStr(cleaned_content(inv[p].content))

\* C3 as amended: parse_json_response reports a reply it cannot parse as
\* None, and the task function surfaces as raw_response the gateway's reply
\* itself, verbatim: untrimmed and with its fence.
C3_RawIsReply ==
    \A p \in Procs :
        (Done(p) /\ inv[p].replied = "text" /\ Unparsable(inv[p].content))
        => /\ inv[p].parsed = PyNone
           /\ ReturnedError(p)
           /\ HasKey(inv[p].value, RawResponseKey)
           /\ GetKey(inv[p].value, RawResponseKey) = PyStr(inv[p].content)

C3_Witness ==
    \E p \in Procs :
        /\ Done(p)
        /\ HasKey(inv[p].value, RawResponseKey)
        /\ startswith(strip(inv[p].content), FenceOpener)
        /\ inv[p].content # strip(inv[p].content)
        /\ cleaned_content(inv[p].content) = <<"n", "o">>

\* the text is a well-formed JSON array (blanks around it allowed)
IsArrayText(a) == json_loads(a).ok /\ json_loads(a).val.kind = "list"

\* the text is a well-formed JSON object (blanks around it allowed)
IsObjectText(a) == json_loads(a).ok /\ json_loads(a).val.kind = "dict"

\* C4: for a well-formed JSON array text, with or without blanks around it,
\* parse_json_response of the text inside a markdown JSON fence equals
\* parse_json_response of the text alone, which is the array; the cleaned
\* text is the trimmed array text, and cleaning it again changes nothing.
C4_FenceIsTransparent ==
    (norm.pc = "fenced" /\ norm.style \in FullFences /\ IsArrayText(norm.text))
    => /\ norm.result = norm.plain
       /\ norm.plain = json_loads(norm.text).val
       /\ norm.cleaned = strip(norm.text)
       /\ cleaned_content(norm.cleaned) = norm.cleaned

C4_Witness ==
    /\ norm.pc = "fenced"
    /\ norm.style = 3
    /\ IsArrayText(norm.text)
    /\ norm.text # strip(norm.text)
    /\ norm.result.kind = "list"
    /\ Len(norm.result.items) = 2

\* C5: for a text that is one well-formed JSON object, alone or inside a
\* markdown JSON fence, parse_json_response returns a list of length one
\* whose element is that object.
C5_ObjectBecomesList ==
    (/\ norm.pc = "plain" \/ (norm.pc = "fenced" /\ norm.style \in FullFences)
     /\ IsObjectText(norm.text))
    => /\ norm.result.kind = "list"
       /\ Len(norm.result.items) = 1
       /\ norm.result.items[1] = json_loads(norm.text).val

C5_Witness ==
    /\ norm.pc = "fenced"
    /\ norm.style = 2
    /\ IsObjectText(norm.text)
    /\ json_loads(norm.text).val.items # <<>>
    /\ norm.result.kind = "list"
    /\ Len(norm.result.items) = 1

\* C6: a value a task function returns is a list or a mapping with an
\* `error` key; when the reply was parsed the value is a list, whatever
\* well-formed JSON (object, scalar, array) the reply was.
C6_ListOrError ==
    \A p \in Procs :
        (Done(p) /\ inv[p].outcome = "return")
        => /\ inv[p].value.kind = "list" \/ HasKey(inv[p].value, ErrorKey)
           /\ (inv[p].replied = "text" /\ ~Unparsable(inv[p].content))
              => inv[p].value.kind = "list"

C6_Witness ==
    \E p \in Procs :
        /\ Done(p)
        /\ inv[p].task = "generate_recipes"
        /\ json_loads(inv[p].content).ok
        /\ json_loads(inv[p].content).val.kind = "int"
        /\ inv[p].outcome = "return"
        /\ inv[p].value = PyList(<<PyInt(1)>>)

\* C7 as claimed: an invocation with a language the catalog lacks returns a
\* mapping with an `error` key; it does not raise.
C7_UnknownLanguageReturnsError ==
    \A p \in Procs :
        (Done(p) /\ inv[p].language \notin {"en", "es"})
        => ReturnedError(p)

\* C8: an invocation issues at most one gateway call; after a fault or a
\* reply that cannot be parsed it ends without another call, and an
\* invocation that returns a list issued exactly one call.
C8_OneGatewayCall ==
    \A p \in Procs :
        /\ inv[p].calls <= 1
        /\ inv[p].replied = "fault" => (Done(p) /\ inv[p].calls = 1)
        /\ (inv[p].replied = "text" /\ inv[p].pc # "parse")
           => (Done(p) /\ inv[p].calls = 1)
        /\ (Done(p) /\ inv[p].outcome = "return" /\ inv[p].value.kind = "list")
           => inv[p].calls = 1

C8_Witness ==
    \E p \in Procs :
        /\ Done(p)
        /\ inv[p].replied = "text"
        /\ Unparsable(inv[p].content)
        /\ ReturnedError(p)
        /\ inv[p].calls = 1

\* the start indices at which needle occurs in hay
occurrences(hay, needle) ==
    {n \in 1..(Len(hay) - Len(needle) + 1) :
        SubSeq(hay, n, n + Len(needle) - 1) = needle}

\* the names in their order with a "," token between neighbours
IsJoined(joined, names) ==
    /\ Len(joined) = (IF names = <<>> THEN 0 ELSE 2 * Len(names) - 1)
    /\ \A n \in 1..Len(names) : joined[2 * n - 1] = names[n]
    /\ \A n \in 1..(Len(names) - 1) : joined[2 * n] = ","

\* the prompt is the template with its placeholder replaced by joined
IsFilledTemplate(prompt, template, joined) ==
    \E k \in 1..Len(template) :
        /\ template[k] = "{food_name_list}"
        /\ prompt = SubSeq(template, 1, k - 1) \o joined
                    \o SubSeq(template, k + 1, Len(template))

\* the invocation p of suggest_recipes_for_food has sent its prompt
SentListPrompt(p) ==
    /\ inv[p].task = "suggest_recipes_for_food"
    /\ inv[p].calls >= 1

\* C9 as claimed: the prompt is the language's recipe_from_list template
\* with the placeholder replaced by the joined names, and the joined string
\* occurs in the prompt exactly once, for every sequence of names.
C9_JoinedExactlyOnce ==
    \A p \in Procs :
        SentListPrompt(p)
        => \E joined \in {join(",", inv[p].food_name)} :
             /\ IsJoined(joined, inv[p].food_name)
             /\ IsFilledTemplate(inv[p].prompt,
                    PROMPTS[inv[p].language].recipe_from_list, joined)
             /\ Cardinality(occurrences(inv[p].prompt, joined)) = 1

\* C9 as amended: the prompt is the language's recipe_from_list template
\* with the placeholder replaced by the names joined in their order with
\* ", " (so it is a function of the language and the names, and holds the
\* joined string at the placeholder's place); the joined string occurs
\* exactly once when it is not empty, holds no double quote and does not
\* occur in the template.
C9_JoinedAtPlaceholder ==
    \A p \in Procs :
        SentListPrompt(p)
        => \E joined \in {join(",", inv[p].food_name)} :
             LET template == PROMPTS[inv[p].language].recipe_from_list
             IN  /\ IsJoined(joined, inv[p].food_name)
                 /\ IsFilledTemplate(inv[p].prompt, template, joined)
                 /\ occurrences(inv[p].prompt, joined) # {}
                 /\ (/\ joined # <<>>
                     /\ \A n \in 1..Len(joined) : joined[n] # "\""
                     /\ occurrences(template, joined) = {})
                    => Cardinality(occurrences(inv[p].prompt, joined)) = 1

C9_Witness ==
    \E p \in Procs :
        /\ SentListPrompt(p)
        /\ inv[p].language = "es"
        /\ inv[p].food_name = <<"Pizza", "Salad">>
        /\ Cardinality(occurrences(inv[p].prompt, <<"Pizza", ",", "Salad">>)) = 1

\* C10 as claimed: the cleaned text is wrapped in [ ] exactly when it does
\* not both start with [ and end with ].
C10_WrapUnlessBothBrackets ==
    norm.pc \in {"plain", "fenced"}
    => (norm.wrapped
        <=> ~(startswith(norm.cleaned, <<"[">>) /\ endswith(norm.cleaned, <<"]">>)))

\* the steps of one invocation, as pairs of pc values: the credential check,
\* (for identify_food) the image encoding, the catalog lookup and rendering,
\* the gateway call, the normalization, the return; every step may instead
\* end the invocation
StepOrder ==
    { <<"idle", "initialize_llm">>,
      <<"initialize_llm", "encode">>, <<"initialize_llm", "render">>,
      <<"initialize_llm", "done">>,
      <<"encode", "render">>, <<"encode", "done">>,
      <<"render", "invoke">>, <<"render", "done">>,
      <<"invoke", "parse">>, <<"invoke", "done">>,
      <<"parse", "done">>,
      <<"done", "idle">> }

\* C11: within one invocation the credential check comes first, then the
\* prompt is rendered from the catalog, then the gateway is called, then
\* the reply is normalized; a step that fails ends the invocation with no
\* later step, so no gateway call is made for a language the catalog lacks.
C11_StepsInOrder ==
    [][\A p \in Procs :
        /\ inv'[p].pc # inv[p].pc => <<inv[p].pc, inv'[p].pc>> \in StepOrder
        /\ (inv'[p].pc # "idle" /\ inv'[p].prompt # inv[p].prompt)
           => /\ inv[p].pc = "render"
              /\ inv[p].llm
              /\ inv[p].calls = 0
        /\ (inv'[p].pc # "idle" /\ inv'[p].calls # inv[p].calls)
           => /\ inv[p].pc = "invoke"
              /\ inv[p].llm
              /\ inv[p].language \in DOMAIN PROMPTS
              /\ inv[p].prompt # <<>>
              /\ inv[p].parsed = PyNone
        /\ (inv'[p].pc # "idle" /\ inv'[p].parsed # inv[p].parsed)
           => /\ inv[p].pc = "parse"
              /\ inv[p].calls = 1
        /\ (inv[p].outcome = "none" /\ inv'[p].outcome # "none")
           => inv'[p].pc = "done"
        /\ (inv'[p].pc = "done" /\ inv'[p].language \notin DOMAIN PROMPTS)
           => inv'[p].calls = 0
      ]_vars

C11_Witness ==
    \E p \in Procs :
        /\ Done(p)
        /\ inv[p].task = "identify_food"
        /\ inv[p].language = "fr"
        /\ inv[p].llm
        /\ inv[p].base64_image > 0
        /\ inv[p].outcome = "raise"
        /\ inv[p].calls = 0

(* ---------------------- overlapping invocations ----------------------- *)

\* the calls the overlapping callers make: <<task, language, image, names>>
OverlapCalls ==
    { <<"identify_food", "en", 1, <<>>>>,
      <<"identify_food", "es", 0, <<>>>>,
      <<"generate_recipes", "fr", NoFile, <<"Pizza">>>>,
      <<"suggest_recipes_for_food", "es", NoFile, <<"Pizza", "Salad">>>> }

\* the texts the gateway replies with to overlapping callers
OverlapReplies ==
    { <<"[", "1", "]">>,
      <<"{", "\"", "1", "\"", ":", "1", "}">>,
      Fenced(3, <<"n", "o">>) }

InitOverlap ==
    /\ environ \in EnvInputs
    /\ active = Procs
    /\ inv = [p \in Procs |-> IdleInv]
    /\ norm = IdleNorm
    /\ session = IdleSession

CallOverlap(p) ==
    \E c \in OverlapCalls : CallWith(p, c[1], c[2], c[3], c[4])

InvokeOverlap(p) == InvokeFrom(p, OverlapReplies)

\* the process environment loses the variable (os.environ belongs to the
\* hosting process; config.py reads it with os.getenv at every lookup)
ClearApiKey ==
    /\ environ # Unset
    /\ environ' = Unset
    /\ UNCHANGED <<active, inv, norm, session>>

NextOverlap ==
    \/ \E p \in Procs : CallOverlap(p)
    \/ \E p \in Procs : InitializeLlm(p)
    \/ \E p \in Procs : EncodeImage(p)
    \/ \E p \in Procs : RenderPrompt(p)
    \/ \E p \in Procs : InvokeOverlap(p)
    \/ \E p \in Procs : ParseReply(p)
    \/ \E p \in Procs : Return(p)
    \/ SetApiKey
    \/ ClearApiKey

SpecOverlap == InitOverlap /\ [][NextOverlap]_vars

\* what a task function run on its own yields for these arguments, this
\* looked-up key and this behaviour of the gateway (a reply text or the
\* fault e): the outcome, the value and the number of gateway calls
RunAlone(task, language, image, api_key, replied, content, e) ==
    IF ~_initialize_llm(api_key)
    THEN [outcome |-> "return", value |-> InitFailure(task), calls |-> 0]
    ELSE IF task = "identify_food" /\ falsy_base64(image_to_base64(image))
    THEN [outcome |-> "return", value |-> EncodeFailure, calls |-> 0]
    ELSE IF language \notin DOMAIN PROMPTS
    THEN [outcome |-> "raise", value |-> PyNone, calls |-> 0]
    ELSE IF replied = "fault"
    THEN [outcome |-> "return", value |-> InvokeFailure(task, e), calls |-> 1]
    ELSE IF parse_json_response(content) = PyNone
    THEN [outcome |-> "return", value |-> ParseFailure(task, content),
          calls |-> 1]
    ELSE [outcome |-> "return",
          value |-> IF task = "identify_food"
                    THEN coerce_to_list(parse_json_response(content))
                    ELSE parse_json_response(content),
          calls |-> 1]

\* the finished invocation p holds what the task function yields on its own
AsRunAlone(p) ==
    \E e \in Faults :
        [outcome |-> inv[p].outcome, value |-> inv[p].value,
         calls |-> inv[p].calls]
        = RunAlone(inv[p].task, inv[p].language, inv[p].image,
                   inv[p].api_key, inv[p].replied, inv[p].content, e)

\* C12: overlapping invocations do not interfere.  Under every
\* interleaving a finished invocation holds the result the task function
\* yields on its own for the same arguments, key and gateway reply; a step
\* of one invocation changes neither another invocation's locals nor the
\* environment; and the key an invocation uses is the one in the
\* environment at its own credential check, so a key set or removed since
\* another invocation's check is seen.
C12_NoInterference ==
    /\ [](\A p \in Procs : Done(p) => AsRunAlone(p))
    /\ [][\A p \in Procs :
            /\ inv'[p] # inv[p]
               => /\ environ' = environ
                  /\ \A q \in Procs \ {p} : inv'[q] = inv[q]
            /\ (inv[p].pc = "initialize_llm" /\ inv'[p].pc # "initialize_llm")
               => inv'[p].api_key = get_google_api_key(environ)
         ]_vars

C12_Witness ==
    /\ environ = Unset
    /\ inv[2].pc = "parse"
    /\ inv[2].api_key = "key"
    /\ inv[2].task = "suggest_recipes_for_food"
    /\ Done(1)
    /\ inv[1].task = "suggest_recipes_for_food"
    /\ inv[1].food_name = inv[2].food_name
    /\ inv[1].language = inv[2].language
    /\ inv[1].api_key = "None"
    /\ ReturnedError(1)
    /\ inv[1].calls = 0

(* ------------------------ the Streamlit session ----------------------- *)
(* Every interaction with a widget reruns main() from the top.  One action *)
(* is one interaction: the widget's new value (and its on_change callback) *)
(* followed by the whole script run.  A file is the content it holds.      *)

\* the number of distinct signatures
SigSpace == 2

\* hashlib.md5(data).hexdigest(): a function of the content alone, with
\* fewer values than there are contents
md5(data) == data % SigSpace

\* main_app.py 79-84
_file_signature(uploaded_file) ==
    IF uploaded_file = NoFile THEN NoSig ELSE md5(uploaded_file)

\* main_app.py 193: Image.open raises for a file that holds no image (here
\* the empty file), which ends the script run
is_image(uploaded_file) == uploaded_file > 0

\* bool(v)
truthy(v) ==
    IF v.kind = "None" THEN FALSE
    ELSE IF v.kind = "int" THEN v.num # 0
    ELSE IF v.kind = "str" THEN v.str # <<>>
    ELSE v.items # <<>>

\* d.get(key)
dict_get(d, k) == IF HasKey(d, k) THEN GetKey(d, k) ELSE PyNone

\* variant: food_details is left out of the keys to drop
StaleKeys_without_details == {"selected_foods", "recipes", "ready_to_show"}

\* main_app.py 189: the keys dropped when a new image is detected
StaleKeys == {"food_details", "selected_foods", "recipes", "ready_to_show"}

\* st.session_state.pop(k, None) for every k in keys
pop_keys(s, keys) ==
    [s EXCEPT !.has = @ \ keys,
              !.food_details = IF "food_details" \in keys THEN PyNone ELSE @,
              !.food_src = IF "food_details" \in keys THEN NoFile ELSE @,
              !.selected_foods = IF "selected_foods" \in keys THEN <<>> ELSE @,
              !.recipes = IF "recipes" \in keys THEN PyNone ELSE @,
              !.recipes_src = IF "recipes" \in keys THEN NoFile ELSE @,
              !.ready_to_show = IF "ready_to_show" \in keys THEN FALSE ELSE @]

\* main_app.py 185-191 (dropped records the image whose food_details this
\* run discarded)
detect_new_image(s) ==
    IF s.uploaded # NoFile /\ _file_signature(s.uploaded) # s.uploaded_file_sig
    THEN pop_keys([s EXCEPT !.uploaded_file_sig = _file_signature(s.uploaded),
                            !.dropped = s.food_src],
                  StaleKeys)
    ELSE s

\* main_app.py 197: `not api_key_check`
key_missing(env) == get_google_api_key(env) \in {"None", ""}

\* main_app.py 201-205: food_details is what identify_food returned for the
\* uploaded file
store_food_details(s, result) ==
    [s EXCEPT !.has = @ \cup {"food_details", "selected_foods", "recipes",
                              "ready_to_show"},
              !.food_details = result, !.food_src = s.uploaded,
              !.selected_foods = <<>>, !.recipes = PyNone,
              !.recipes_src = NoFile, !.ready_to_show = FALSE]

FoodNameKey == <<"f", "o", "o", "d", "_", "n", "a", "m", "e">>

NoFoodDetected == PyStr(<<"N", "o", " ", "f", "o", "o", "d", " ", "d", "e", "t", "e", "c", "t", "e", "d">>)

\* main_app.py 103-113: the element is listed as an option (an element that
\* is no mapping makes element.get raise, which also ends the listing)
usable(element) ==
    /\ element.kind = "dict"
    /\ truthy(dict_get(element, FoodNameKey))
    /\ dict_get(element, FoodNameKey) # NoFoodDetected

\* main_app.py 91-113: the selection column is reached
selector_reached(food_details) ==
    /\ food_details.kind = "list"
    /\ food_details.items # <<>>
    /\ \A n \in 1..Len(food_details.items) : usable(food_details.items[n])

\* main_app.py 102-110
food_options(food_details) ==
    [n \in 1..Len(food_details.items) |->
        dict_get(food_details.items[n], FoodNameKey)]

\* main_app.py 86-159: pressed says that Get Recipes was clicked, result is
\* what suggest_recipes_for_food returns if it is called
display_recipe_results(s, pressed, result) ==
    LET s1 == [s EXCEPT !.shown_details = s.food_src]
    IN  IF ~selector_reached(s.food_details) THEN s1
        ELSE
          LET s2 == [s1 EXCEPT
                       !.has = @ \cup {"selected_foods", "ready_to_show", "recipes"},
                       !.shown_selector = TRUE]
              s3 == IF pressed /\ s2.selected_foods # <<>>
                    THEN [s2 EXCEPT !.recipes = result,
                                    !.recipes_src = s.food_src,
                                    !.ready_to_show = TRUE]
                    ELSE s2
          IN  [s3 EXCEPT !.shown_recipes =
                 IF s3.ready_to_show /\ truthy(s3.recipes)
                 THEN s3.recipes_src ELSE NoFile]

\* main_app.py 161-209: one run of the script on the widgets' values in s;
\* identify and get_recipes say which button was clicked
main(s, env, identify, food_result, get_recipes, recipes_result) ==
    LET s0 == [s EXCEPT !.shown_image = NoFile, !.shown_details = NoFile,
                        !.shown_selector = FALSE, !.shown_recipes = NoFile,
                        !.dropped = NoFile]
        s1 == detect_new_image(s0)
    IN  IF s1.uploaded # NoFile /\ ~is_image(s1.uploaded) THEN s1
        ELSE
          LET s2 == IF s1.uploaded = NoFile THEN s1
                    ELSE [s1 EXCEPT !.shown_image = s1.uploaded]
              s3 == IF s2.uploaded # NoFile /\ identify /\ ~key_missing(env)
                    THEN store_food_details(s2, food_result)
                    ELSE s2
          IN  IF "food_details" \in s3.has /\ truthy(s3.food_details)
              THEN display_recipe_results(s3, get_recipes, recipes_result)
              ELSE s3

SessionFiles == 0..MaxImageLen

SessionLanguages == {"en", "es"}

Quoted(cs) == <<"\"">> \o cs \o <<"\"">>

\* the text of one detection: {"food_name":"<name>"}
DetectionText(name) ==
    <<"{">> \o Quoted(FoodNameKey) \o <<":">> \o Quoted(name) \o <<"}">>

\* the texts the gateway replies with to identify_food in the session
SessionReplies ==
    { <<"[">> \o DetectionText(<<"P">>) \o <<",">> \o DetectionText(<<"S">>)
        \o <<"]">>,
      Fenced(2, DetectionText(<<"P">>)),
      DetectionText(NoFoodDetected.str),
      <<"n", "o">>,
      <<"[", "]">>,
      <<"1">> }

\* the texts the gateway replies with to suggest_recipes_for_food
RecipeReplies == { <<"[", "1", "]">>, <<"n", "o">>, <<"[", "]">> }

\* the values a task function can return in the session
TaskResults(task, language, image, env, replies) ==
    {RunAlone(task, language, image, get_google_api_key(env),
              "text", c, "").value : c \in replies}
    \cup {RunAlone(task, language, image, get_google_api_key(env),
                   "fault", <<>>, e).value : e \in Faults}

\* the selections a multiselect over these options can hold
Selections(options) ==
    {sel \in UNION {[1..k -> {options[n] : n \in 1..Len(options)}] :
                        k \in 0..Len(options)} :
        \A i, j \in 1..Len(sel) : i # j => sel[i] # sel[j]}

InitSession ==
    /\ environ \in EnvInputs
    /\ active = {}
    /\ inv = [p \in Procs |-> IdleInv]
    /\ norm = IdleNorm
    /\ session = IdleSession

\* main_app.py 183: a file is put into the uploader
UploadFile ==
    /\ \E f \in SessionFiles :
         /\ f # session.uploaded
         /\ session' = main([session EXCEPT !.uploaded = f], environ,
                            FALSE, PyNone, FALSE, PyNone)
    /\ UNCHANGED <<environ, active, inv, norm>>

\* main_app.py 183: the file is taken out of the uploader
RemoveFile ==
    /\ session.uploaded # NoFile
    /\ session' = main([session EXCEPT !.uploaded = NoFile], environ,
                       FALSE, PyNone, FALSE, PyNone)
    /\ UNCHANGED <<environ, active, inv, norm>>

\* main_app.py 162-165: the sidebar's language box
SelectLanguage ==
    /\ \E l \in SessionLanguages :
         /\ l # session.language
         /\ session' = main([session EXCEPT !.language = l], environ,
                            FALSE, PyNone, FALSE, PyNone)
    /\ UNCHANGED <<environ, active, inv, norm>>

\* main_app.py 196-205: the Identify button, shown under the image
PressIdentify ==
    /\ session.shown_image # NoFile
    /\ \E result \in TaskResults("identify_food", session.language,
                                 session.uploaded, environ, SessionReplies) :
         session' = main(session, environ, TRUE, result, FALSE, PyNone)
    /\ UNCHANGED <<environ, active, inv, norm>>

\* main_app.py 123-133: the multiselect changes; _on_foods_change runs
\* before the script
ChangeFoods ==
    /\ session.shown_selector
    /\ \E sel \in Selections(food_options(session.food_details)) :
         /\ sel # session.selected_foods
         /\ session' = main([session EXCEPT !.selected_foods = sel,
                                            !.ready_to_show = FALSE,
                                            !.recipes = PyNone,
                                            !.recipes_src = NoFile],
                            environ, FALSE, PyNone, FALSE, PyNone)
    /\ UNCHANGED <<environ, active, inv, norm>>

\* main_app.py 135-142: the Get Recipes button
PressGetRecipes ==
    /\ session.shown_selector
    /\ \E result \in TaskResults("suggest_recipes_for_food", session.language,
                                 NoFile, environ, RecipeReplies) :
         session' = main(session, environ, FALSE, PyNone, TRUE, result)
    /\ UNCHANGED <<environ, active, inv, norm>>

NextSession ==
    \/ UploadFile
    \/ RemoveFile
    \/ SelectLanguage
    \/ PressIdentify
    \/ ChangeFoods
    \/ PressGetRecipes
    \/ SetApiKey

SpecSession == InitSession /\ [][NextSession]_vars

\* the session holds recipes
HoldsRecipes == "recipes" \in session.has /\ session.recipes # PyNone

\* C13: after any sequence of uploads, Identify presses, selection changes
\* and Get Recipes presses, while a file is uploaded the food_details (and
\* the recipes) the session holds were produced from an image whose
\* signature is the stored uploaded_file_sig and the current file's
\* signature; what a script run shows next to an image was produced from
\* an image of that signature; and a run that meets a file whose signature
\* differs from the stored one ends without food_details, selected_foods,
\* recipes and ready_to_show and shows no results.
C13_ResultsMatchImage ==
    /\ [](/\ (session.uploaded # NoFile /\ "food_details" \in session.has)
             => /\ session.food_src # NoFile
                /\ md5(session.food_src) = session.uploaded_file_sig
                /\ session.uploaded_file_sig = md5(session.uploaded)
          /\ (session.uploaded # NoFile /\ HoldsRecipes)
             => /\ session.recipes_src # NoFile
                /\ md5(session.recipes_src) = session.uploaded_file_sig
                /\ session.uploaded_file_sig = md5(session.uploaded)
          /\ (session.shown_image # NoFile /\ session.shown_details # NoFile)
             => md5(session.shown_details) = md5(session.shown_image)
          /\ (session.shown_image # NoFile /\ session.shown_recipes # NoFile)
             => md5(session.shown_recipes) = md5(session.shown_image))
    /\ [][(session'.uploaded # NoFile
            /\ md5(session'.uploaded) # session.uploaded_file_sig)
          => /\ session'.has \cap StaleKeys = {}
             /\ session'.uploaded_file_sig = md5(session'.uploaded)
             /\ session'.shown_details = NoFile
             /\ session'.shown_recipes = NoFile
         ]_vars

\* a second image has just replaced one whose detections the session held:
\* the run dropped them, stored the new signature and shows the new image
\* with no results
C13_Witness ==
    /\ session.uploaded # NoFile
    /\ session.dropped # NoFile
    /\ md5(session.dropped) # md5(session.uploaded)
    /\ session.uploaded_file_sig = md5(session.uploaded)
    /\ session.has \cap StaleKeys = {}
    /\ session.shown_image = session.uploaded
    /\ session.shown_details = NoFile

====
